---------------------------- MODULE Spec2Model ----------------------------
(***************************************************************************)
(* Project Euler 93 (arithmetic expressions), src/main.py.                 *)
(*                                                                         *)
(* main() walks the 126 ascending 4-digit combinations of 1..9; for each   *)
(* it walks the 24 permutations and the 64 operator triples, evaluates the *)
(* five hardcoded parenthesizations, and records the first expression      *)
(* found for every positive integer value.  It then scans 1, 2, 3, ... for *)
(* the length of the consecutive run and keeps the best combination.       *)
(*                                                                         *)
(* The operators are Python's operator.add / mul / sub / truediv applied   *)
(* to ints and floats: the division is IEEE-754 binary64 division, and     *)
(* every operation on a float is a binary64 operation rounded to nearest,  *)
(* ties to even.  The model computes those values bit for bit: a float is  *)
(* (sign, odd mantissa, exponent), the mantissa an unbounded natural kept  *)
(* as a sequence of 15-bit limbs.                                          *)
(***************************************************************************)
EXTENDS Integers, Sequences, FiniteSets, TLC

(***************************************************************************)
(* Unbounded naturals: little-endian sequences of limbs in 0..Base-1, no   *)
(* most-significant zero limb; << >> is zero.                              *)
(***************************************************************************)
Base == 2^15

Max(a, b) == IF a >= b THEN a ELSE b
Min(a, b) == IF a <= b THEN a ELSE b

\* number of bits of a limb: 0 for 0, k for 2^(k-1) <= n < 2^k
RECURSIVE BitLen(_)
BitLen(n) == IF n = 0 THEN 0 ELSE 1 + BitLen(n \div 2)

LimbBits == BitLen(Base) - 1

Limb(a, i) == IF i >= 1 /\ i <= Len(a) THEN a[i] ELSE 0

RECURSIVE Trim(_)
Trim(a) == IF a = << >> THEN a
           ELSE IF a[Len(a)] # 0 THEN a
           ELSE Trim(SubSeq(a, 1, Len(a) - 1))

RECURSIVE BigOfInt(_)
BigOfInt(n) == IF n = 0 THEN << >> ELSE <<n % Base>> \o BigOfInt(n \div Base)

RECURSIVE IntOfBig(_)
IntOfBig(a) == IF a = << >> THEN 0 ELSE a[1] + Base * IntOfBig(Tail(a))

RECURSIVE CmpFrom(_, _, _)
CmpFrom(a, b, i) == IF i = 0 THEN 0
                    ELSE IF a[i] > b[i] THEN 1
                    ELSE IF a[i] < b[i] THEN -1
                    ELSE CmpFrom(a, b, i - 1)

BigCmp(a, b) == IF Len(a) > Len(b) THEN 1
                ELSE IF Len(a) < Len(b) THEN -1
                ELSE CmpFrom(a, b, Len(a))

RECURSIVE AddRec(_, _, _, _, _)
AddRec(a, b, i, carry, acc) ==
    IF i > Len(a) /\ i > Len(b)
    THEN IF carry = 0 THEN acc ELSE Append(acc, carry)
    ELSE LET s == Limb(a, i) + Limb(b, i) + carry
         IN  AddRec(a, b, i + 1, s \div Base, Append(acc, s % Base))

BigAdd(a, b) == AddRec(a, b, 1, 0, << >>)

RECURSIVE SubRec(_, _, _, _, _)
SubRec(a, b, i, borrow, acc) ==
    IF i > Len(a) THEN acc
    ELSE LET s == a[i] - Limb(b, i) - borrow
         IN  IF s < 0 THEN SubRec(a, b, i + 1, 1, Append(acc, s + Base))
                      ELSE SubRec(a, b, i + 1, 0, Append(acc, s))

\* a - b for a >= b
BigSub(a, b) == Trim(SubRec(a, b, 1, 0, << >>))

RECURSIVE MulSmallRec(_, _, _, _, _)
MulSmallRec(a, k, i, carry, acc) ==
    IF i > Len(a)
    THEN IF carry = 0 THEN acc ELSE Append(acc, carry)
    ELSE LET s == a[i] * k + carry
         IN  MulSmallRec(a, k, i + 1, s \div Base, Append(acc, s % Base))

\* a * k for 0 <= k < Base
BigMulSmall(a, k) == IF k = 0 \/ a = << >> THEN << >>
                     ELSE IF k = 1 THEN a
                     ELSE MulSmallRec(a, k, 1, 0, << >>)

Zeros(n) == [i \in 1..n |-> 0]

RECURSIVE MulRec(_, _, _, _)
MulRec(a, b, j, acc) ==
    IF j > Len(b) THEN acc
    ELSE MulRec(a, b, j + 1,
                IF b[j] = 0 THEN acc
                ELSE BigAdd(acc, Zeros(j - 1) \o BigMulSmall(a, b[j])))

BigMul(a, b) == IF Len(a) >= Len(b) THEN MulRec(a, b, 1, << >>)
                ELSE MulRec(b, a, 1, << >>)

\* a * 2^k
BigShl(a, k) == IF a = << >> THEN a
                ELSE Zeros(k \div LimbBits) \o BigMulSmall(a, 2^(k % LimbBits))

\* a \div 2^k
BigShr(a, k) ==
    LET q == k \div LimbBits
        r == k % LimbBits
        n == Len(a) - q
    IN  IF n <= 0 THEN << >>
        ELSE IF r = 0 THEN SubSeq(a, q + 1, Len(a))
        ELSE Trim([i \in 1..n |->
                     (a[q + i] \div 2^r) + (Limb(a, q + i + 1) % 2^r) * 2^(LimbBits - r)])

BigBitLen(a) == IF a = << >> THEN 0
                ELSE LimbBits * (Len(a) - 1) + BitLen(a[Len(a)])

\* bit i (bit 0 is the least significant) of a
BigBit(a, i) == (Limb(a, (i \div LimbBits) + 1) \div 2^(i % LimbBits)) % 2

\* a % 2^k = 0
BigLowZero(a, k) ==
    /\ \A i \in 1..(k \div LimbBits) : Limb(a, i) = 0
    /\ Limb(a, (k \div LimbBits) + 1) % 2^(k % LimbBits) = 0

\* number of trailing zero bits of a limb n > 0
RECURSIVE TrailingZeros(_)
TrailingZeros(n) == IF n % 2 = 1 THEN 0 ELSE 1 + TrailingZeros(n \div 2)

\* number of trailing zero bits of a # 0
RECURSIVE BigTrailingZeros(_, _)
BigTrailingZeros(a, i) == IF a[i] = 0 THEN LimbBits + BigTrailingZeros(a, i + 1)
                          ELSE TrailingZeros(a[i])

\* short division: <<quotient, remainder>> of a by a limb k > 0
RECURSIVE DivSmallRec(_, _, _, _, _)
DivSmallRec(a, k, i, rem, acc) ==
    IF i = 0 THEN <<Trim(acc), rem>>
    ELSE LET s == rem * Base + a[i]
         IN  DivSmallRec(a, k, i - 1, s % k, <<s \div k>> \o acc)

BigDivModSmall(a, k) == DivSmallRec(a, k, Len(a), 0, << >>)

\* one quotient limb of r by v, where r < v * Base and v's top limb >= Base/2:
\* the estimate from the leading limbs is at most 2 too large
RECURSIVE FixDigit(_, _, _)
FixDigit(r, v, q) == IF BigCmp(BigMulSmall(v, q), r) = 1 THEN FixDigit(r, v, q - 1) ELSE q

QuotDigit(r, v) ==
    LET n  == Len(v)
        hi == Limb(r, n + 1) * Base + Limb(r, n)
    IN  FixDigit(r, v, Min(Base - 1, hi \div v[n]))

\* long division of u by v (v normalised), limb by limb from the top
RECURSIVE DivRec(_, _, _, _, _)
DivRec(u, v, i, rem, acc) ==
    IF i = 0 THEN <<Trim(acc), rem>>
    ELSE LET r == Trim(<<u[i]>> \o rem)
             q == QuotDigit(r, v)
         IN  DivRec(u, v, i - 1, BigSub(r, BigMulSmall(v, q)), <<q>> \o acc)

\* <<quotient, remainder is zero>> of a by b # 0
BigDivMod(a, b) ==
    IF Len(b) = 1
    THEN LET qr == BigDivModSmall(a, b[1]) IN <<qr[1], qr[2] = 0>>
    ELSE LET s  == LimbBits - BitLen(b[Len(b)])
             qr == DivRec(BigShl(a, s), BigShl(b, s), Len(BigShl(a, s)), << >>, << >>)
         IN  <<qr[1], qr[2] = << >> >>

(***************************************************************************)
(* binary64 values.  A finite double is (-1)^neg * m * 2^e with m an odd   *)
(* natural below 2^MantBits (zero: m = << >>, e = 0, neg = FALSE; Python   *)
(* treats -0.0 and 0.0 alike in ==, >, dict lookup and division).  Every   *)
(* value main() can form from three operations on digits lies far inside   *)
(* the normal exponent range, so overflow and subnormals do not arise.     *)
(* Python's int + int, int * int, int - int are exact and int / int is the *)
(* correctly rounded quotient, which for operands this small is what the   *)
(* same operation on the doubles gives; one representation serves both.    *)
(***************************************************************************)
MantBits == 53

\* the exception truediv raises; it propagates out of the enclosing expression
ZeroDivisionError == [raised |-> "ZeroDivisionError"]

FZero == [neg |-> FALSE, m |-> << >>, e |-> 0]

\* strip the trailing zero bits of the mantissa into the exponent
Canon(neg, M, e) ==
    IF M = << >> THEN FZero
    ELSE LET tz == BigTrailingZeros(M, 1)
         IN  [neg |-> neg, m |-> IF tz = 0 THEN M ELSE BigShr(M, tz), e |-> e + tz]

\* the double nearest to (-1)^neg * (M + sticky) * 2^e, ties to even; sticky
\* stands for a discarded fraction in (0, 1) of the last place of M
Round(neg, M, e, sticky) ==
    LET L == BigBitLen(M)
    IN  IF L <= MantBits THEN Canon(neg, M, e)
        ELSE LET k    == L - MantBits
                 q    == BigShr(M, k)
                 half == BigBit(M, k - 1) = 1
                 rest == sticky \/ ~BigLowZero(M, k - 1)
                 up   == half /\ (rest \/ BigBit(q, 0) = 1)
             IN  Canon(neg, IF up THEN BigAdd(q, <<1>>) ELSE q, e + k)

\* int -> float conversion of a small natural
FromInt(n) == Canon(FALSE, BigOfInt(n), 0)

\* a double whose mantissa is a single limb, as a signed integer mantissa
IsSmall(x) == Len(x.m) = 1
Signed(x) == IF x.neg THEN 0 - x.m[1] ELSE x.m[1]

\* the double s * 2^e for an integer s of fewer than 31 bits: exact
FromSmall(s, e) ==
    IF s = 0 THEN FZero
    ELSE LET n  == IF s < 0 THEN 0 - s ELSE s
             tz == TrailingZeros(n)
         IN  [neg |-> s < 0, m |-> BigOfInt(n \div 2^tz), e |-> e + tz]

FNeg(x) == IF x.m = << >> THEN x ELSE [x EXCEPT !.neg = ~x.neg]

\* operator.add
add(x, y) ==
    IF x = ZeroDivisionError \/ y = ZeroDivisionError THEN ZeroDivisionError
    ELSE IF x.m = << >> THEN y
    ELSE IF y.m = << >> THEN x
    ELSE IF IsSmall(x) /\ IsSmall(y) /\ x.e - y.e \in (0 - LimbBits)..LimbBits
    THEN \* the sum has fewer than 31 bits: it is exact
         IF x.e <= y.e THEN FromSmall(Signed(x) + Signed(y) * 2^(y.e - x.e), x.e)
                       ELSE FromSmall(Signed(x) * 2^(x.e - y.e) + Signed(y), y.e)
    ELSE LET e == Min(x.e, y.e)
             a == BigShl(x.m, x.e - e)
             b == BigShl(y.m, y.e - e)
             c == BigCmp(a, b)
         IN  IF x.neg = y.neg THEN Round(x.neg, BigAdd(a, b), e, FALSE)
             ELSE IF c = 0 THEN FZero
             ELSE IF c = 1 THEN Round(x.neg, BigSub(a, b), e, FALSE)
             ELSE Round(y.neg, BigSub(b, a), e, FALSE)

\* operator.sub
sub(x, y) ==
    IF x = ZeroDivisionError \/ y = ZeroDivisionError THEN ZeroDivisionError
    ELSE add(x, FNeg(y))

\* operator.mul
mul(x, y) ==
    IF x = ZeroDivisionError \/ y = ZeroDivisionError THEN ZeroDivisionError
    ELSE IF x.m = << >> \/ y.m = << >> THEN FZero
    ELSE IF IsSmall(x) /\ IsSmall(y)
    THEN \* the product has at most 30 bits: it is exact
         FromSmall(Signed(x) * Signed(y), x.e + y.e)
    ELSE Round(x.neg # y.neg, BigMul(x.m, y.m), x.e + y.e, FALSE)

\* operator.truediv: raises ZeroDivisionError on a zero divisor
truediv(x, y) ==
    IF x = ZeroDivisionError \/ y = ZeroDivisionError THEN ZeroDivisionError
    ELSE IF y.m = << >> THEN ZeroDivisionError
    ELSE IF x.m = << >> THEN FZero
    ELSE IF IsSmall(x) /\ IsSmall(y) /\ x.m[1] % y.m[1] = 0
    THEN \* the quotient of the mantissas is a whole (odd) number: it is exact
         [neg |-> x.neg # y.neg, m |-> <<x.m[1] \div y.m[1]>>, e |-> x.e - y.e]
    ELSE LET k  == Max(0, MantBits + 2 - BigBitLen(x.m) + BigBitLen(y.m))
             qr == BigDivMod(BigShl(x.m, k), y.m)
         IN  Round(x.neg # y.neg, qr[1], x.e - y.e - k, ~qr[2])

\* `target >= 0` in place of `target > 0`
IsNotNegative(x) == ~x.neg

\* target > 0
IsPositive(x) == x.m # << >> /\ ~x.neg

\* int(target) == target: the double is a whole number
IsWhole(x) == x.e >= 0

\* int(target) for a whole, positive target
IntOf(x) == IntOfBig(x.m) * 2^x.e

(***************************************************************************)
(* The iterators of main().                                                *)
(***************************************************************************)
digits_all == [i \in 1..9 |-> i]

ops_all == <<"add", "mul", "sub", "truediv">>

op_strs == [o \in {"add", "mul", "sub", "truediv"} |->
              CASE o = "add" -> "+" [] o = "mul" -> "*" [] o = "sub" -> "-" [] o = "truediv" -> "/"]

Apply(op, x, y) == CASE op = "add"     -> add(x, y)
                     [] op = "mul"     -> mul(x, y)
                     [] op = "sub"     -> sub(x, y)
                     [] op = "truediv" -> truediv(x, y)

\* itertools.combinations(digits_all, 4): the ascending index tuples in
\* lexicographic order
RECURSIVE CombinationsFrom(_, _, _)
CombinationsFrom(pool, r, lo) ==
    IF r = 0 THEN << << >> >>
    ELSE IF lo > Len(pool) - r + 1 THEN << >>
    ELSE LET rest == CombinationsFrom(pool, r - 1, lo + 1)
         IN  [i \in 1..Len(rest) |-> <<pool[lo]>> \o rest[i]]
             \o CombinationsFrom(pool, r, lo + 1)

combinations == CombinationsFrom(digits_all, 4, 1)

\* itertools.permutations of a tuple: every order of its positions,
\* lexicographic in the positions
RECURSIVE PermutationsOf(_)
PermutationsOf(s) ==
    IF s = << >> THEN << << >> >>
    ELSE LET Without(i) == SubSeq(s, 1, i - 1) \o SubSeq(s, i + 1, Len(s))
             RECURSIVE From(_)
             From(i) == IF i > Len(s) THEN << >>
                        ELSE LET rest == PermutationsOf(Without(i))
                             IN  [j \in 1..Len(rest) |-> <<s[i]>> \o rest[j]] \o From(i + 1)
         IN  From(1)

positions == PermutationsOf(<<1, 2, 3, 4>>)

\* itertools.product(ops_all, repeat=3): the last operator varies fastest
product == [i \in 1..(Len(ops_all) * Len(ops_all) * Len(ops_all)) |->
              <<ops_all[((i - 1) \div (Len(ops_all) * Len(ops_all))) + 1],
                ops_all[(((i - 1) \div Len(ops_all)) % Len(ops_all)) + 1],
                ops_all[((i - 1) % Len(ops_all)) + 1]>>]

(***************************************************************************)
(* The five hardcoded parenthesizations: value and format string.  A       *)
(* format result is kept as its sequence of tokens (the blanks dropped);   *)
(* a digit is formatted to its decimal numeral.                            *)
(***************************************************************************)
Str(i) == CASE i = 0 -> "0" [] i = 1 -> "1" [] i = 2 -> "2" [] i = 3 -> "3" [] i = 4 -> "4"
            [] i = 5 -> "5" [] i = 6 -> "6" [] i = 7 -> "7" [] i = 8 -> "8" [] i = 9 -> "9"

\* a sequence as its computed elements: TLC then evaluates each element once,
\* not at every use
Tabulated(f) == f \o << >>

Float == Tabulated([i \in 1..9 |-> FromInt(i)])

OpIndex(op) == CASE op = "add" -> 1 [] op = "mul" -> 2 [] op = "sub" -> 3 [] op = "truediv" -> 4

(***************************************************************************)
(* Every expression of main() is one last operation on values of three     *)
(* kinds: a digit, p(i, j) for two digits, and q(p(i, j), k) or            *)
(* p(i, q(j, k)) for three.  The latter are the same for every expression  *)
(* that contains them and are tabulated, indexed by the positions of the   *)
(* operators in ops_all and by the digits.                                 *)
(***************************************************************************)
\* Pair[p][i][j] = p(i, j)
Pair == Tabulated([p \in 1..Len(ops_all) |-> Tabulated([i \in 1..9 |-> Tabulated([j \in 1..9 |->
            Apply(ops_all[p], Float[i], Float[j])])])])

\* LeftNested[p][q][i][j][k] = q(p(i, j), k)
LeftNested ==
    Tabulated([p \in 1..Len(ops_all) |-> Tabulated([q \in 1..Len(ops_all) |->
        Tabulated([i \in 1..9 |-> Tabulated([j \in 1..9 |-> Tabulated([k \in 1..9 |->
            Apply(ops_all[q], Apply(ops_all[p], Float[i], Float[j]), Float[k])])])])])])

\* RightNested[p][q][i][j][k] = p(i, q(j, k))
RightNested ==
    Tabulated([p \in 1..Len(ops_all) |-> Tabulated([q \in 1..Len(ops_all) |->
        Tabulated([i \in 1..9 |-> Tabulated([j \in 1..9 |-> Tabulated([k \in 1..9 |->
            Apply(ops_all[p], Float[i], Apply(ops_all[q], Float[j], Float[k]))])])])])])

\* op3(op2(op1(a, b), c), d)
Value1(a, b, c, d, op1, op2, op3) ==
    Apply(op3, LeftNested[OpIndex(op1)][OpIndex(op2)][a][b][c], Float[d])

\* the first two operands printed in the other order
Format1Swapped(a, b, c, d, op1, op2, op3) ==
    <<"(", "(", Str(b), op_strs[op1], Str(a), ")", op_strs[op2], Str(c), ")", op_strs[op3], Str(d)>>

\* '(({a} {op1} {b}) {op2} {c}) {op3} {d}'
Format1(a, b, c, d, op1, op2, op3) ==
    <<"(", "(", Str(a), op_strs[op1], Str(b), ")", op_strs[op2], Str(c), ")", op_strs[op3], Str(d)>>

\* op2(op1(a, b), op3(c, d))
Value2(a, b, c, d, op1, op2, op3) ==
    Apply(op2, Pair[OpIndex(op1)][a][b], Pair[OpIndex(op3)][c][d])

\* {a} printed where {b} belongs
Format2Repeats(a, b, c, d, op1, op2, op3) ==
    <<"(", Str(a), op_strs[op1], Str(a), ")", op_strs[op2], "(", Str(c), op_strs[op3], Str(d), ")">>

\* '({a} {op1} {b}) {op2} ({c} {op3} {d})'
Format2(a, b, c, d, op1, op2, op3) ==
    <<"(", Str(a), op_strs[op1], Str(b), ")", op_strs[op2], "(", Str(c), op_strs[op3], Str(d), ")">>

\* op3(op1(a, op2(b, c)), d)
Value3(a, b, c, d, op1, op2, op3) ==
    Apply(op3, RightNested[OpIndex(op1)][OpIndex(op2)][a][b][c], Float[d])

\* '({a} {op1} ({b} {op2} {c})) {op3} {d}'
Format3(a, b, c, d, op1, op2, op3) ==
    <<"(", Str(a), op_strs[op1], "(", Str(b), op_strs[op2], Str(c), ")", ")", op_strs[op3], Str(d)>>

\* op1(a, op3(op2(b, c), d))
Value4(a, b, c, d, op1, op2, op3) ==
    Apply(op1, Float[a], LeftNested[OpIndex(op2)][OpIndex(op3)][b][c][d])

\* '{a} {op1} (({b} {op2} {c}) {op3} {d})'
Format4(a, b, c, d, op1, op2, op3) ==
    <<Str(a), op_strs[op1], "(", "(", Str(b), op_strs[op2], Str(c), ")", op_strs[op3], Str(d), ")">>

\* op1(a, op2(b, op3(c, d)))
Value5(a, b, c, d, op1, op2, op3) ==
    Apply(op1, Float[a], RightNested[OpIndex(op2)][OpIndex(op3)][b][c][d])

\* '{a} {op1} ({b} {op2} ({c} {op3} {d}))'
Format5(a, b, c, d, op1, op2, op3) ==
    <<Str(a), op_strs[op1], "(", Str(b), op_strs[op2], "(", Str(c), op_strs[op3], Str(d), ")", ")">>

\* a try block without the test `target not in targets_by_expression`
TryOverwrite(table, target, expression) ==
    IF target = ZeroDivisionError THEN table
    ELSE IF IsWhole(target) /\ IsPositive(target)
         THEN [k \in DOMAIN table \cup {IntOf(target)} |->
                  IF k = IntOf(target) THEN expression ELSE table[k]]
         ELSE table

\* one try block: the table after it, given the value of the right-hand
\* side (or the exception it raised) and the formatted expression
Try(table, target, expression) ==
    IF target = ZeroDivisionError THEN table
    ELSE IF IsWhole(target) /\ IsPositive(target) /\ IntOf(target) \notin DOMAIN table
         THEN (IntOf(target) :> expression) @@ table
         ELSE table

\* the body of `for op1, op2, op3 in product(ops_all, repeat=3)`: the five
\* try blocks in order, for the permutation at position p of digit_set ds and
\* the operator triple at position o.  t1 .. t4 are the dict after the first
\* .. fourth try block, each computed before the next block reads it.
Iteration(table, ds, p, o) ==
    LET a   == ds[positions[p][1]]
        b   == ds[positions[p][2]]
        c   == ds[positions[p][3]]
        d   == ds[positions[p][4]]
        op1 == product[o][1]
        op2 == product[o][2]
        op3 == product[o][3]
    IN  CHOOSE t5 \in
            {Try(t4, Value5(a, b, c, d, op1, op2, op3), Format5(a, b, c, d, op1, op2, op3)) : t4 \in
            {Try(t3, Value4(a, b, c, d, op1, op2, op3), Format4(a, b, c, d, op1, op2, op3)) : t3 \in
            {Try(t2, Value3(a, b, c, d, op1, op2, op3), Format3(a, b, c, d, op1, op2, op3)) : t2 \in
            {Try(t1, Value2(a, b, c, d, op1, op2, op3), Format2(a, b, c, d, op1, op2, op3)) : t1 \in
            {Try(table, Value1(a, b, c, d, op1, op2, op3), Format1(a, b, c, d, op1, op2, op3))}}}}} :
            TRUE

\* the iterations lo..hi of the two nested loops, in order; iteration n is
\* permutation ((n - 1) \div 64) + 1 with operator triple ((n - 1) % 64) + 1.
\* The range is halved so that the evaluation nests 11 deep, not 1536; the
\* dict after the first half is computed before the second half runs on it.
RECURSIVE Iterations(_, _, _, _)
Iterations(table, ds, lo, hi) ==
    IF lo = hi
    THEN Iteration(table, ds, ((lo - 1) \div Len(product)) + 1, ((lo - 1) % Len(product)) + 1)
    ELSE CHOOSE last \in
             {Iterations(first, ds, ((lo + hi) \div 2) + 1, hi) : first \in
             {Iterations(table, ds, lo, (lo + hi) \div 2)}} :
             TRUE

\* for a, b, c, d in permutations(digit_set):
\*     for op1, op2, op3 in product(ops_all, repeat=3): ...
Enumeration(table, ds) == Iterations(table, ds, 1, Len(positions) * Len(product))

(***************************************************************************)
(* State of main().                                                        *)
(***************************************************************************)
VARIABLES
    pc,                     \* "shape1" .. "shape5", "scan", "done"
    ci,                     \* position of `for digit_set in combinations(...)`
    pi,                     \* position of `for a, b, c, d in permutations(digit_set)`
    oi,                     \* position of `for op1, op2, op3 in product(...)`
    targets_by_expression,  \* dict: positive integer -> expression
    t,
    digits_best,
    t_best,
    expressions_best,
    runs                    \* history: the run length t of every combination processed

vars == <<pc, ci, pi, oi, targets_by_expression, t, digits_best, t_best, expressions_best, runs>>

digit_set == combinations[ci]

a == digit_set[positions[pi][1]]
b == digit_set[positions[pi][2]]
c == digit_set[positions[pi][3]]
d == digit_set[positions[pi][4]]

op1 == product[oi][1]
op2 == product[oi][2]
op3 == product[oi][3]

Init ==
    /\ pc = "shape1"
    /\ ci = 1
    /\ pi = 1
    /\ oi = 1
    /\ targets_by_expression = << >>
    /\ t = 0
    /\ digits_best = <<0, 0, 0, 0>>
    /\ t_best = 0
    /\ expressions_best = << >>
    /\ runs = << >>

\* a scan that starts from 0
EnumerateScanFromZero ==
    /\ pc = "shape1"
    /\ pi = 1
    /\ oi = 1
    /\ targets_by_expression' = Enumeration(targets_by_expression, digit_set)
    /\ pi' = Len(positions)
    /\ oi' = Len(product)
    /\ pc' = "scan"
    /\ t' = 0
    /\ UNCHANGED <<ci, digits_best, t_best, expressions_best, runs>>

\* lines 127-199 in one step: both inner loops over the fresh dict, then t = 1
Enumerate ==
    /\ pc = "shape1"
    /\ pi = 1
    /\ oi = 1
    /\ targets_by_expression' = Enumeration(targets_by_expression, digit_set)
    /\ pi' = Len(positions)
    /\ oi' = Len(product)
    /\ pc' = "scan"
    /\ t' = 1
    /\ UNCHANGED <<ci, digits_best, t_best, expressions_best, runs>>

\* (((a . b) . c) . d)
Shape1 ==
    /\ pc = "shape1"
    /\ targets_by_expression' = Try(targets_by_expression,
                                    Value1(a, b, c, d, op1, op2, op3),
                                    Format1(a, b, c, d, op1, op2, op3))
    /\ pc' = "shape2"
    /\ UNCHANGED <<ci, pi, oi, t, digits_best, t_best, expressions_best, runs>>

\* ((a . b) . (c . d))
Shape2 ==
    /\ pc = "shape2"
    /\ targets_by_expression' = Try(targets_by_expression,
                                    Value2(a, b, c, d, op1, op2, op3),
                                    Format2(a, b, c, d, op1, op2, op3))
    /\ pc' = "shape3"
    /\ UNCHANGED <<ci, pi, oi, t, digits_best, t_best, expressions_best, runs>>

\* ((a . (b . c)) . d)
Shape3 ==
    /\ pc = "shape3"
    /\ targets_by_expression' = Try(targets_by_expression,
                                    Value3(a, b, c, d, op1, op2, op3),
                                    Format3(a, b, c, d, op1, op2, op3))
    /\ pc' = "shape4"
    /\ UNCHANGED <<ci, pi, oi, t, digits_best, t_best, expressions_best, runs>>

\* the fourth and the fifth right-hand side inside one try block: an exception
\* raised by the fourth skips the fifth too
Shape4Abort ==
    /\ pc = "shape4"
    /\ targets_by_expression' = Try(targets_by_expression,
                                    Value4(a, b, c, d, op1, op2, op3),
                                    Format4(a, b, c, d, op1, op2, op3))
    /\ IF Value4(a, b, c, d, op1, op2, op3) # ZeroDivisionError
       THEN pc' = "shape5" /\ UNCHANGED <<pi, oi, t>>
       ELSE IF oi < Len(product)
            THEN oi' = oi + 1 /\ pc' = "shape1" /\ UNCHANGED <<pi, t>>
            ELSE IF pi < Len(positions)
                 THEN oi' = 1 /\ pi' = pi + 1 /\ pc' = "shape1" /\ UNCHANGED t
                 ELSE pc' = "scan" /\ t' = 1 /\ UNCHANGED <<pi, oi>>
    /\ UNCHANGED <<ci, digits_best, t_best, expressions_best, runs>>

\* (a . ((b . c) . d))
Shape4 ==
    /\ pc = "shape4"
    /\ targets_by_expression' = Try(targets_by_expression,
                                    Value4(a, b, c, d, op1, op2, op3),
                                    Format4(a, b, c, d, op1, op2, op3))
    /\ pc' = "shape5"
    /\ UNCHANGED <<ci, pi, oi, t, digits_best, t_best, expressions_best, runs>>

\* (a . (b . (c . d))), then the next operator triple, the next permutation,
\* or `t = 1` once both loops are exhausted
Shape5 ==
    /\ pc = "shape5"
    /\ targets_by_expression' = Try(targets_by_expression,
                                    Value5(a, b, c, d, op1, op2, op3),
                                    Format5(a, b, c, d, op1, op2, op3))
    /\ IF oi < Len(product)
       THEN oi' = oi + 1 /\ pc' = "shape1" /\ UNCHANGED <<pi, t>>
       ELSE IF pi < Len(positions)
            THEN oi' = 1 /\ pi' = pi + 1 /\ pc' = "shape1" /\ UNCHANGED t
            ELSE pc' = "scan" /\ t' = 1 /\ UNCHANGED <<pi, oi>>
    /\ UNCHANGED <<ci, digits_best, t_best, expressions_best, runs>>

\* a scan whose body does not advance t
ScanStuck ==
    /\ pc = "scan"
    /\ t \in DOMAIN targets_by_expression
    /\ UNCHANGED vars

\* while t in targets_by_expression: t += 1
Scan ==
    /\ pc = "scan"
    /\ t \in DOMAIN targets_by_expression
    /\ t' = t + 1
    /\ UNCHANGED <<pc, ci, pi, oi, targets_by_expression, digits_best, t_best,
                   expressions_best, runs>>

\* a comparison that is inverted
BetterInverted(n, best) == n < best

\* a replacement that does not compare at all
BetterAlways(n, best) == TRUE

\* `if t > t_best`
Better(n, best) == n > best

\* t -= 1; update best; then the next digit_set with a fresh dict, or, after
\* the combination at position last, return
UpdateBest(last) ==
    /\ pc = "scan"
    /\ t \notin DOMAIN targets_by_expression
    /\ t' = t - 1
    /\ runs' = Append(runs, t - 1)
    /\ IF Better(t - 1, t_best)
       THEN /\ digits_best' = digit_set
            /\ t_best' = t - 1
            /\ expressions_best' = [i \in 1..(t - 1) |-> targets_by_expression[i]]
       ELSE UNCHANGED <<digits_best, t_best, expressions_best>>
    /\ IF ci < last
       THEN /\ ci' = ci + 1
            /\ targets_by_expression' = << >>
            /\ pi' = 1
            /\ oi' = 1
            /\ pc' = "shape1"
       ELSE /\ pc' = "done"
            /\ UNCHANGED <<ci, pi, oi, targets_by_expression>>

Update == UpdateBest(Len(combinations))

(***************************************************************************)
(* main(): one step per digit combination for the two inner loops, one per *)
(* iteration of the scan, one for the update of the best.                  *)
(***************************************************************************)
Next == Enumerate \/ Scan \/ Update

Spec == Init /\ [][Next]_vars

\* The program is sequential: it takes its next step whenever it has one.
\* This is weak fairness of each of the three steps; for Enumerate it is
\* written out, with the condition under which the step can be taken (the
\* control is at the top of the permutations loop) in place of ENABLED.
FairSpec ==
    /\ Spec
    /\ WF_vars(Scan)
    /\ WF_vars(Update)
    /\ ([]<>~(pc = "shape1" /\ pi = 1 /\ oi = 1) \/ []<><<Enumerate>>_vars)

(***************************************************************************)
(* main() statement by statement: one step per try block.  The run is      *)
(* followed up to the end of the scan of digit combination number          *)
(* MaxCombinations.                                                        *)
(***************************************************************************)
MaxCombinations == 2

StepUpdate == ci < MaxCombinations /\ Update

NextStep == Shape1 \/ Shape2 \/ Shape3 \/ Shape4 \/ Shape5 \/ Scan \/ StepUpdate

StepSpec == Init /\ [][NextStep]_vars

(***************************************************************************)
(* Exact arithmetic, the reference the properties are stated against: a    *)
(* rational is <<numerator, denominator>> in lowest terms with a positive  *)
(* denominator; Undefined is the value of a division by zero.              *)
(***************************************************************************)
Undefined == <<0, 0>>

Abs(n) == IF n < 0 THEN 0 - n ELSE n

RECURSIVE GCD(_, _)
GCD(m, n) == IF n = 0 THEN m ELSE GCD(n, m % n)

Rat(n, dd) ==
    LET g == GCD(Abs(n), Abs(dd))
    IN  IF dd > 0 THEN <<n \div g, dd \div g>> ELSE <<(0 - n) \div g, (0 - dd) \div g>>

RatOp(sym, x, y) ==
    IF x = Undefined \/ y = Undefined THEN Undefined
    ELSE CASE sym = "+" -> Rat(x[1] * y[2] + y[1] * x[2], x[2] * y[2])
           [] sym = "-" -> Rat(x[1] * y[2] - y[1] * x[2], x[2] * y[2])
           [] sym = "*" -> Rat(x[1] * y[1], x[2] * y[2])
           [] sym = "/" -> IF y[1] = 0 THEN Undefined ELSE Rat(x[1] * y[2], x[2] * y[1])

IsDigitToken(tok) == tok \in {Str(i) : i \in 0..9}
IsOpToken(tok) == tok \in {"+", "-", "*", "/"}
DigitOf(tok) == CHOOSE i \in 0..9 : Str(i) = tok

\* A printed expression read as written: term op term, a term being a digit
\* or a parenthesized expression.  The result is the exact value and the
\* position after the part read; a text that is not of this form reads as
\* Undefined.
RECURSIVE ReadExpr(_, _)
RECURSIVE ReadTerm(_, _)
ReadTerm(s, i) ==
    IF i > Len(s) THEN [v |-> Undefined, n |-> i]
    ELSE IF IsDigitToken(s[i]) THEN [v |-> <<DigitOf(s[i]), 1>>, n |-> i + 1]
    ELSE IF s[i] = "("
         THEN LET e == ReadExpr(s, i + 1)
              IN  IF e.n <= Len(s) /\ s[e.n] = ")" THEN [v |-> e.v, n |-> e.n + 1]
                  ELSE [v |-> Undefined, n |-> e.n]
         ELSE [v |-> Undefined, n |-> i]

ReadExpr(s, i) ==
    LET l == ReadTerm(s, i)
    IN  IF l.n > Len(s) \/ ~IsOpToken(s[l.n]) THEN [v |-> Undefined, n |-> l.n]
        ELSE LET r == ReadTerm(s, l.n + 1)
             IN  [v |-> RatOp(s[l.n], l.v, r.v), n |-> r.n]

ExactValue(s) ==
    LET e == ReadExpr(s, 1)
    IN  IF e.n = Len(s) + 1 THEN e.v ELSE Undefined

\* the exact value of shape k over the digits w, x, y, z and operator symbols
ExactShape(k, w, x, y, z, s1, s2, s3) ==
    LET W == <<w, 1>>
        X == <<x, 1>>
        Y == <<y, 1>>
        Z == <<z, 1>>
    IN  CASE k = 1 -> RatOp(s3, RatOp(s2, RatOp(s1, W, X), Y), Z)
          [] k = 2 -> RatOp(s2, RatOp(s1, W, X), RatOp(s3, Y, Z))
          [] k = 3 -> RatOp(s3, RatOp(s1, W, RatOp(s2, X, Y)), Z)
          [] k = 4 -> RatOp(s1, W, RatOp(s3, RatOp(s2, X, Y), Z))
          [] k = 5 -> RatOp(s1, W, RatOp(s2, X, RatOp(s3, Y, Z)))

\* the positive integers some (shape, permutation, operator triple) over the
\* digits ds has as its exact value
ExactTargets(ds) ==
    LET vals == {ExactShape(k[1], ds[positions[k[2]][1]], ds[positions[k[2]][2]],
                            ds[positions[k[2]][3]], ds[positions[k[2]][4]],
                            op_strs[product[k[3]][1]], op_strs[product[k[3]][2]],
                            op_strs[product[k[3]][3]]) :
                    k \in (1..5) \X (1..Len(positions)) \X (1..Len(product))}
    IN  {v[1] : v \in {w \in vals : w # Undefined /\ w[2] = 1 /\ w[1] > 0}}

(***************************************************************************)
(* Properties.                                                             *)
(***************************************************************************)
Range(f) == {f[i] : i \in DOMAIN f}

SeqMax(f) == CHOOSE m \in Range(f) : \A n \in Range(f) : n <= m

Position(ds) == CHOOSE i \in 1..Len(combinations) : combinations[i] = ds

Shapes == {"shape1", "shape2", "shape3", "shape4", "shape5"}

\* the right-hand side and the text of the try block the control is at
CurrentValue ==
    CASE pc = "shape1" -> Value1(a, b, c, d, op1, op2, op3)
      [] pc = "shape2" -> Value2(a, b, c, d, op1, op2, op3)
      [] pc = "shape3" -> Value3(a, b, c, d, op1, op2, op3)
      [] pc = "shape4" -> Value4(a, b, c, d, op1, op2, op3)
      [] pc = "shape5" -> Value5(a, b, c, d, op1, op2, op3)

CurrentFormat ==
    CASE pc = "shape1" -> Format1(a, b, c, d, op1, op2, op3)
      [] pc = "shape2" -> Format2(a, b, c, d, op1, op2, op3)
      [] pc = "shape3" -> Format3(a, b, c, d, op1, op2, op3)
      [] pc = "shape4" -> Format4(a, b, c, d, op1, op2, op3)
      [] pc = "shape5" -> Format5(a, b, c, d, op1, op2, op3)

\* the key a value is stored under, 0 for a value that is never stored
KeyOf(v) == IF v # ZeroDivisionError /\ IsWhole(v) /\ IsPositive(v) THEN IntOf(v) ELSE 0

Best == <<digits_best, t_best, expressions_best>>

\* C1: main() over all 126 combinations returns the digits (1, 2, 5, 8) with
\* run length 51 and a list of exactly 51 expressions.  The best triple has
\* that value from the update for (1, 2, 5, 8) on, up to the return.
C1_Returns1258 ==
    /\ Len(combinations) = 126
    /\ (ci > Position(<<1, 2, 5, 8>>) \/ pc = "done") =>
          /\ digits_best = <<1, 2, 5, 8>>
          /\ t_best = 51
          /\ Len(expressions_best) = 51
    /\ pc = "done" => Len(runs) = Len(combinations)

C1_Witness ==
    /\ pc = "done"
    /\ Len(runs) = 126
    /\ digits_best = <<1, 2, 5, 8>>
    /\ t_best = 51

\* C2: after any processed prefix of the combinations the best triple is that
\* of the earliest combination whose run length is the maximum over the
\* prefix; it is replaced only by a combination with a strictly greater run
\* length, and then by that combination's digits, run length and first
\* expressions; t_best never decreases; at the return t_best is at least the
\* run length of each of the 126 combinations.
C2_EarliestMaximum ==
    /\ [](LET m == SeqMax(<<0>> \o runs)
          IN  /\ t_best = m
              /\ Len(runs) = (IF pc = "done" THEN ci ELSE ci - 1)
              /\ IF m = 0
                 THEN digits_best = <<0, 0, 0, 0>> /\ expressions_best = << >>
                 ELSE \E i \in 1..Len(runs) :
                         /\ runs[i] = m
                         /\ \A j \in 1..(i - 1) : runs[j] < m
                         /\ digits_best = combinations[i]
              /\ pc = "done" =>
                    /\ Len(runs) = 126
                    /\ \A i \in 1..126 : t_best >= runs[i])
    /\ [][/\ t_best' >= t_best
          /\ runs' # runs => runs' = Append(runs, t')
          /\ Best' # Best <=> (runs' # runs /\ t' > t_best)
          /\ Best' # Best =>
                /\ digits_best' = digit_set
                /\ t_best' = t'
                /\ expressions_best' = [i \in 1..t' |-> targets_by_expression[i]]]_vars

C2_Witness ==
    /\ Len(runs) = 6
    /\ runs[2] < runs[1]
    /\ digits_best = combinations[5]
    /\ runs[6] < runs[5]
    /\ runs[5] > runs[1]

\* C3: the run length n a combination ends with is a natural number, every
\* integer of 1..n is a key of the combination's dict, n + 1 is not a key,
\* and n = 0 exactly when 1 is not a key.
C3_RunLength ==
    [][runs' # runs =>
          /\ t' \in Nat
          /\ runs' = Append(runs, t')
          /\ \A i \in 1..t' : i \in DOMAIN targets_by_expression
          /\ (t' + 1) \notin DOMAIN targets_by_expression
          /\ (t' = 0) <=> (1 \notin DOMAIN targets_by_expression)]_vars

C3_Witness ==
    \E i, j \in 1..Len(runs) : runs[i] = 0 /\ runs[j] > 0

\* C4: the best expression list has exactly t_best entries, and the i-th of
\* them, read as written, has the exact value i; so has the returned list.
C4_ExpressionsEvaluate ==
    /\ Len(expressions_best) = t_best
    /\ \A i \in 1..Len(expressions_best) : ExactValue(expressions_best[i]) = <<i, 1>>

C4_Witness ==
    /\ pc = "done"
    /\ Len(expressions_best) = 51
    /\ ExactValue(expressions_best[51]) = <<51, 1>>

\* C5: once a combination is enumerated, the keys of its dict are exactly
\* the positive integers that are the exact rational value of some (shape,
\* permutation, operator triple) over its digits.
C5_ExactKeySet ==
    (pc = "scan" /\ t = 1) => DOMAIN targets_by_expression = ExactTargets(digit_set)

\* C6: a try block whose right-hand side divides by zero leaves the dict as
\* it was and hands control to the next try block of the same permutation
\* and operator triple (after the fifth, to the next iteration or the scan);
\* it does so exactly when the printed expression has no exact value; every
\* entry a try block creates has the key its expression evaluates to.
C6_DivisionByZeroSkipped ==
    [][(pc \in Shapes) =>
          /\ (CurrentValue = ZeroDivisionError) <=> (ExactValue(CurrentFormat) = Undefined)
          /\ CurrentValue = ZeroDivisionError =>
                /\ targets_by_expression' = targets_by_expression
                /\ pc = "shape1" => (pc' = "shape2" /\ pi' = pi /\ oi' = oi)
                /\ pc = "shape2" => (pc' = "shape3" /\ pi' = pi /\ oi' = oi)
                /\ pc = "shape3" => (pc' = "shape4" /\ pi' = pi /\ oi' = oi)
                /\ pc = "shape4" => (pc' = "shape5" /\ pi' = pi /\ oi' = oi)
                /\ pc = "shape5" => (pc' \in {"shape1", "scan"} /\ ci' = ci)
          /\ \A k \in DOMAIN targets_by_expression' \ DOMAIN targets_by_expression :
                <<k, 1>> = ExactValue(targets_by_expression'[k])]_vars

C6_Witness ==
    /\ pc = "shape5"
    /\ Value4(a, b, c, d, op1, op2, op3) = ZeroDivisionError
    /\ Value5(a, b, c, d, op1, op2, op3) # ZeroDivisionError
    /\ targets_by_expression # << >>

\* C7: for the digits (1, 2, 3, 4) the dict holds every integer from 1 to 28
\* and not 29 (its run length is 28), its largest key is 36, and it has
\* thirty-one keys.
C7_Digits1234 ==
    /\ (ci = 1 /\ pc = "scan") =>
          /\ digit_set = <<1, 2, 3, 4>>
          /\ \A i \in 1..28 : i \in DOMAIN targets_by_expression
          /\ 29 \notin DOMAIN targets_by_expression
          /\ 36 \in DOMAIN targets_by_expression
          /\ \A k \in DOMAIN targets_by_expression : k <= 36
          /\ Cardinality(DOMAIN targets_by_expression) = 31
    /\ Len(runs) >= 1 => runs[1] = 28

C7_Witness ==
    /\ ci = 1
    /\ pc = "scan"
    /\ t = 29
    /\ Cardinality(DOMAIN targets_by_expression) = 31

\* the text s has four single-digit leaves, which are the digits ds each
\* once, three operators, and is a well-formed expression
UsesEachOnce(s, ds) ==
    LET leaves == SelectSeq(s, IsDigitToken)
    IN  /\ Len(leaves) = 4
        /\ \A x \in Range(ds) : Cardinality({i \in 1..4 : DigitOf(leaves[i]) = x}) = 1
        /\ Len(SelectSeq(s, IsOpToken)) = 3
        /\ \A i \in 1..(Len(s) - 1) : ~(IsDigitToken(s[i]) /\ IsDigitToken(s[i + 1]))
        /\ ReadExpr(s, 1).n = Len(s) + 1

\* C8: every expression in the dict uses each digit of the combination
\* exactly once as a single-digit leaf, with exactly three operators; so does
\* every expression of the best list with the best digits.
C8_EachDigitOnce ==
    /\ \A k \in DOMAIN targets_by_expression :
          UsesEachOnce(targets_by_expression[k], digit_set)
    /\ \A i \in DOMAIN expressions_best : UsesEachOnce(expressions_best[i], digits_best)

C8_Witness ==
    /\ pc = "scan"
    /\ Cardinality(DOMAIN targets_by_expression) > 0
    /\ Len(expressions_best) > 0
    /\ digits_best # digit_set

\* C9: main() returns, and what it returns has a run length of at least 1,
\* the digits of one of the 126 combinations and a list that is not empty.
C9_Terminates ==
    <>(/\ pc = "done"
       /\ t_best >= 1
       /\ digits_best \in Range(combinations)
       /\ digits_best # <<0, 0, 0, 0>>
       /\ expressions_best # << >>)

C9_Witness ==
    /\ pc = "done"
    /\ ci = Len(combinations)
    /\ t_best >= 1
    /\ digits_best \in Range(combinations)

\* the try blocks of one combination in the order they run: permutations
\* outermost, then operator triples, then the five shapes
InstanceCount == Len(positions) * Len(product) * Cardinality(Shapes)

InstanceValue(ds, n) ==
    LET p == positions[((n - 1) \div (Len(product) * Cardinality(Shapes))) + 1]
        o == product[(((n - 1) \div Cardinality(Shapes)) % Len(product)) + 1]
        k == ((n - 1) % Cardinality(Shapes)) + 1
    IN  CASE k = 1 -> Value1(ds[p[1]], ds[p[2]], ds[p[3]], ds[p[4]], o[1], o[2], o[3])
          [] k = 2 -> Value2(ds[p[1]], ds[p[2]], ds[p[3]], ds[p[4]], o[1], o[2], o[3])
          [] k = 3 -> Value3(ds[p[1]], ds[p[2]], ds[p[3]], ds[p[4]], o[1], o[2], o[3])
          [] k = 4 -> Value4(ds[p[1]], ds[p[2]], ds[p[3]], ds[p[4]], o[1], o[2], o[3])
          [] k = 5 -> Value5(ds[p[1]], ds[p[2]], ds[p[3]], ds[p[4]], o[1], o[2], o[3])

InstanceFormat(ds, n) ==
    LET p == positions[((n - 1) \div (Len(product) * Cardinality(Shapes))) + 1]
        o == product[(((n - 1) \div Cardinality(Shapes)) % Len(product)) + 1]
        k == ((n - 1) % Cardinality(Shapes)) + 1
    IN  CASE k = 1 -> Format1(ds[p[1]], ds[p[2]], ds[p[3]], ds[p[4]], o[1], o[2], o[3])
          [] k = 2 -> Format2(ds[p[1]], ds[p[2]], ds[p[3]], ds[p[4]], o[1], o[2], o[3])
          [] k = 3 -> Format3(ds[p[1]], ds[p[2]], ds[p[3]], ds[p[4]], o[1], o[2], o[3])
          [] k = 4 -> Format4(ds[p[1]], ds[p[2]], ds[p[3]], ds[p[4]], o[1], o[2], o[3])
          [] k = 5 -> Format5(ds[p[1]], ds[p[2]], ds[p[3]], ds[p[4]], o[1], o[2], o[3])

\* the key each try block of the combination ds computes
Produced(ds) == Tabulated([n \in 1..InstanceCount |-> KeyOf(InstanceValue(ds, n))])

First(S) == CHOOSE n \in S : \A m \in S : n <= m

\* C10: within one combination an entry of the dict, once made, stays as it
\* is; a try block adds at most the entry for its own value and text, and
\* only under a key that is absent; the dict is empty when a combination
\* starts; so after the enumeration each key holds the text of the first try
\* block, in the order of the loops, whose computed value is that key.
C10_FirstWriteWins ==
    /\ []((pc = "shape1" /\ pi = 1 /\ oi = 1) => targets_by_expression = << >>)
    /\ []((pc = "scan" /\ t = 1) =>
             LET P == Produced(digit_set)
             IN  /\ DOMAIN targets_by_expression = Range(P) \ {0}
                 /\ \A k \in DOMAIN targets_by_expression :
                       targets_by_expression[k] =
                          InstanceFormat(digit_set, First({n \in 1..InstanceCount : P[n] = k})))
    /\ [][/\ ci' = ci =>
                \A k \in DOMAIN targets_by_expression :
                   /\ k \in DOMAIN targets_by_expression'
                   /\ targets_by_expression'[k] = targets_by_expression[k]
          /\ ci' # ci => targets_by_expression' = << >>
          /\ pc \in Shapes =>
                \A k \in DOMAIN targets_by_expression' \ DOMAIN targets_by_expression :
                   /\ k = KeyOf(CurrentValue)
                   /\ targets_by_expression'[k] = CurrentFormat
          /\ (pc \in Shapes /\ KeyOf(CurrentValue) # 0) =>
                KeyOf(CurrentValue) \in DOMAIN targets_by_expression']_vars

C10_Witness ==
    /\ pc = "shape2"
    /\ KeyOf(Value1(a, b, c, d, op1, op2, op3)) \in DOMAIN targets_by_expression
    /\ targets_by_expression[KeyOf(Value1(a, b, c, d, op1, op2, op3))]
          # Format1(a, b, c, d, op1, op2, op3)

=============================================================================
